---- MODULE Spec2Model ----
(***************************************************************************)
(* Model of the i4NS LENS backend: the mission log parser                  *)
(* (mission_parser.py), the doctrine search of DoctrineIndexer             *)
(* (doctrine_indexer.py) and the four-node analysis pipeline of            *)
(* MissionAnalysisRAG (rag_pipeline.py).                                   *)
(*                                                                         *)
(* Optional values are sequences: <<>> is None (or an absent JSON key),    *)
(* <<v>> is the value v.                                                   *)
(***************************************************************************)
EXTENDS Integers, Sequences, FiniteSets, TLC

VARIABLES
    mission_data,        \* the JSON object handed to parse_json_data
    vector_store,        \* doctrine_indexer.vector_store of the pipeline: the indexed chunks
    pc,                  \* position of the analysis call
    error,               \* the exception that ended the call, "" when none
    mission_log,         \* <<>> or <<MissionLog>>
    current_event,       \* AnalysisState["current_event"]
    all_doctrine_docs,   \* the local all_doctrine_docs of _retrieve_doctrine_node
    doctrine_context,    \* AnalysisState["doctrine_context"]
    comparison_results,  \* AnalysisState["comparison_results"]
    summary,             \* AnalysisState["summary"]: <<>> for "", else the interpolated values
    lessons_learned,     \* AnalysisState["lessons_learned"]
    recommendations,     \* AnalysisState["recommendations"]
    analysis,            \* <<>> or <<MissionAnalysis>> returned by analyze_mission
    doctrines_dir,       \* the doctrine files present in DOCTRINES_DIR
    unreadable,          \* the doctrine files whose loader raises
    persisted,           \* VECTOR_STORE_DIR/doctrine_index on disk
    indexer_store,       \* vector_store of a DoctrineIndexer: <<>> or <<the indexed chunks>>
    ipc,                 \* position of that indexer's index_doctrines call
    call,                \* the running or the last index_doctrines call
    indexed,             \* some index_doctrines call on that indexer has returned
    last_search,         \* the last DoctrineIndexer.search call on that indexer
    requests,            \* the POST /api/missions/analyze requests and their responses
    current,             \* the request whose handler is on the event loop, 0 if none
    stored_analyses,     \* api.stored_analyses: mission id -> <<>> or <<MissionAnalysis>>
    last_get,            \* the last GET /api/missions/{mission_id}/analysis
    last_reindex         \* the last POST /api/doctrines/reindex

\* the state of one analysis request
AnalysisVars == <<mission_data, vector_store, pc, error, mission_log, current_event,
                  all_doctrine_docs, doctrine_context, comparison_results, summary,
                  lessons_learned, recommendations, analysis>>

\* the state of a DoctrineIndexer and of the directories it works on
IndexerVars == <<doctrines_dir, unreadable, persisted, indexer_store, ipc, call, indexed,
                 last_search>>

\* the state of the API process
ApiVars == <<requests, current, stored_analyses, last_get, last_reindex>>

\* what the analysis pipeline leaves alone
OtherVars == <<IndexerVars, ApiVars>>

vars == <<AnalysisVars, IndexerVars, ApiVars>>

----------------------------------------------------------------------------
(* Bounds of the model *)

MaxEvents == 6        \* longest mission log
MaxMixed == 4         \* longest mission log that mixes all the sample events
MaxFiles == 2         \* doctrine files that may be present in DOCTRINES_DIR
MaxTime == 2          \* distinct instants a timestamp may denote
MaxRequests == 2      \* analyze requests the API process receives

----------------------------------------------------------------------------
(* Generic helpers *)

None == <<>>
Some(v) == <<v>>
Min(a, b) == IF a < b THEN a ELSE b

RECURSIVE GCD(_, _)
GCD(a, b) == IF b = 0 THEN a ELSE GCD(b, a % b)

\* s[:n]
Take(s, n) == SubSeq(s, 1, Min(n, Len(s)))

\* sum(1 for x in s if P(x))
Count(s, P(_)) == Cardinality({i \in 1..Len(s) : P(s[i])})

----------------------------------------------------------------------------
(* mission_parser.py *)

\* A raw timestamp value of the JSON: kind "absent" (no such key), "null",
\* "str" (fmt = the index in `formats` of the first format that matches, 0
\* when none does), "num" (Unix time), with the instant it denotes.
RawTimestamp(kind, fmt, t) == [kind |-> kind, fmt |-> fmt, t |-> t]

\* Number of entries of `formats`
NumFormats == 5

\* parse_timestamp that returns None for a value of unknown kind instead of
\* raising
parse_timestamp_lenient(ts) ==
    IF ts.kind = "str" /\ ts.fmt \in 1..NumFormats THEN [err |-> "", val |-> Some(ts.t)]
    ELSE IF ts.kind = "str" THEN [err |-> "ValueError", val |-> None]
    ELSE IF ts.kind = "num" THEN [err |-> "", val |-> Some(ts.t)]
    ELSE [err |-> "", val |-> None]

\* parse_timestamp: the datetime, or the exception raised
parse_timestamp(ts) ==
    IF ts.kind = "str" /\ ts.fmt \in 1..NumFormats THEN [err |-> "", val |-> Some(ts.t)]
    ELSE IF ts.kind = "str" THEN [err |-> "ValueError", val |-> None]
    ELSE IF ts.kind = "num" THEN [err |-> "", val |-> Some(ts.t)]
    ELSE [err |-> "ValueError", val |-> None]

\* dict.get(key, default) on an optional raw field
Get(field, default) == IF field = None THEN default ELSE field[1]

\* parse_event reading event_data["event_type"] instead of using a default
parse_event_requires_type(event_data) ==
    IF event_data.timestamp.kind = "absent" \/ event_data.event_type = None
    THEN [err |-> "KeyError", val |-> None]
    ELSE LET ts == parse_timestamp(event_data.timestamp) IN
         IF ts.err # ""
         THEN [err |-> ts.err, val |-> None]
         ELSE [err |-> "",
               val |-> Some([timestamp       |-> ts.val,
                             event_type      |-> Get(event_data.event_type, "unknown"),
                             description     |-> Get(event_data.description, ""),
                             tracking_number |-> event_data.tracking_number,
                             speed           |-> event_data.speed])]

\* parse_event: event_data["timestamp"] raises KeyError when the key is
\* absent; parse_timestamp raises ValueError; otherwise the MissionEvent.
parse_event(event_data) ==
    IF event_data.timestamp.kind = "absent"
    THEN [err |-> "KeyError", val |-> None]
    ELSE LET ts == parse_timestamp(event_data.timestamp) IN
         IF ts.err # ""
         THEN [err |-> ts.err, val |-> None]
         ELSE [err |-> "",
               val |-> Some([timestamp       |-> ts.val,
                             event_type      |-> Get(event_data.event_type, "unknown"),
                             description     |-> Get(event_data.description, ""),
                             tracking_number |-> event_data.tracking_number,
                             speed           |-> event_data.speed])]

\* The first exception raised by [parse_event(e) for e in events], "" if none
RECURSIVE FirstError(_)
FirstError(results) ==
    IF results = <<>> THEN ""
    ELSE IF Head(results).err # "" THEN Head(results).err
    ELSE FirstError(Tail(results))

\* the events that parsed, in order
RECURSIVE ParsedOnly(_)
ParsedOnly(results) ==
    IF results = <<>> THEN <<>>
    ELSE (IF Head(results).err = "" THEN <<Head(results).val[1]>> ELSE <<>>)
         \o ParsedOnly(Tail(results))

\* parse_json_data that drops the events it cannot parse
parse_json_data_skipping(data) ==
    LET parsed == [i \in 1..Len(data.events) |-> parse_event(data.events[i])]
        st     == parse_timestamp(data.start_time)
        et     == parse_timestamp(data.end_time)
    IN  IF data.start_time.kind = "absent" THEN [err |-> "KeyError", val |-> None]
        ELSE IF st.err # "" THEN [err |-> st.err, val |-> None]
        ELSE IF data.end_time.kind # "absent" /\ et.err # "" THEN [err |-> et.err, val |-> None]
        ELSE [err |-> "",
              val |-> Some([mission_id   |-> Get(data.mission_id, "unknown"),
                            mission_name |-> Get(data.mission_name, "Unnamed Mission"),
                            start_time   |-> st.val,
                            end_time     |-> IF data.end_time.kind = "absent" THEN None ELSE et.val,
                            vessel_name  |-> Get(data.vessel_name, "Unknown Vessel"),
                            events       |-> ParsedOnly(parsed)])]

\* parse_json_data: events first, then start_time, then end_time; mission_id,
\* mission_name and vessel_name have defaults
parse_json_data(data) ==
    LET parsed == [i \in 1..Len(data.events) |-> parse_event(data.events[i])]
        everr  == FirstError(parsed)
        st     == parse_timestamp(data.start_time)
        et     == parse_timestamp(data.end_time)
    IN  IF everr # "" THEN [err |-> everr, val |-> None]
        ELSE IF data.start_time.kind = "absent" THEN [err |-> "KeyError", val |-> None]
        ELSE IF st.err # "" THEN [err |-> st.err, val |-> None]
        ELSE IF data.end_time.kind # "absent" /\ et.err # "" THEN [err |-> et.err, val |-> None]
        ELSE [err |-> "",
              val |-> Some([mission_id   |-> Get(data.mission_id, "unknown"),
                            mission_name |-> Get(data.mission_name, "Unnamed Mission"),
                            start_time   |-> st.val,
                            end_time     |-> IF data.end_time.kind = "absent" THEN None ELSE et.val,
                            vessel_name  |-> Get(data.vessel_name, "Unknown Vessel"),
                            events       |-> [i \in 1..Len(parsed) |-> parsed[i].val[1]]])]

\* one event of generate_sample_mission_log: its timestamp is a string of the
\* second format, on the instant t
SampleLogEvent(t, type, desc, trk, spd) ==
    [timestamp |-> RawTimestamp("str", 2, t), event_type |-> Some(type),
     description |-> Some(desc), tracking_number |-> trk, speed |-> spd]

\* generate_sample_mission_log with the spec's fifth event, a speed_change
\* without tracking_number
generate_sample_mission_log_untracked ==
    [mission_id   |-> Some("MISSION-2024-001"),
     mission_name |-> Some("Training Exercise Alpha"),
     vessel_name  |-> Some("USS Example"),
     start_time   |-> RawTimestamp("str", 2, 1),
     end_time     |-> RawTimestamp("str", 2, 6),
     events |-> <<
        SampleLogEvent(1, "mission_start", "Mission commenced", None, Some(0)),
        SampleLogEvent(2, "speed_change", "Increased speed to 15 knots",
                       Some("TRK-001"), Some(15)),
        SampleLogEvent(3, "contact_detection", "Surface contact detected bearing 045",
                       Some("TRK-002"), None),
        SampleLogEvent(4, "course_change", "Changed course to 120 degrees",
                       Some("TRK-001"), Some(15)),
        SampleLogEvent(5, "speed_change", "Reduced speed to 5 knots for man overboard drill",
                       None, Some(5)),
        SampleLogEvent(6, "mission_end", "Mission completed, returning to port",
                       None, Some(10))>>]

\* generate_sample_mission_log: every speed_change and contact_detection
\* event of the sample carries a tracking_number
generate_sample_mission_log ==
    [mission_id   |-> Some("MISSION-2024-001"),
     mission_name |-> Some("Training Exercise Alpha"),
     vessel_name  |-> Some("USS Example"),
     start_time   |-> RawTimestamp("str", 2, 1),
     end_time     |-> RawTimestamp("str", 2, 6),
     events |-> <<
        SampleLogEvent(1, "mission_start", "Mission commenced", None, Some(0)),
        SampleLogEvent(2, "speed_change", "Increased speed to 15 knots",
                       Some("TRK-001"), Some(15)),
        SampleLogEvent(3, "contact_detection", "Surface contact detected bearing 045",
                       Some("TRK-002"), None),
        SampleLogEvent(4, "course_change", "Changed course to 120 degrees",
                       Some("TRK-001"), Some(15)),
        SampleLogEvent(5, "speed_change", "Reduced speed to 5 knots for man overboard drill",
                       Some("TRK-001"), Some(5)),
        SampleLogEvent(6, "mission_end", "Mission completed, returning to port",
                       None, Some(10))>>]

----------------------------------------------------------------------------
(* doctrine_indexer.py *)

\* Doctrine files are numbered 1..MaxFiles; odd numbers are PDFs, even ones
\* text files.  A file's content is fixed: file f splits into
\* NumChunks(f) chunks, and chunk i of file f has the text ChunkText(f, i).
\* Texts repeat across files, so distinct chunks may have equal page_content.
DoctrineFiles == 1..MaxFiles
NumChunks(f) == (f % 3) + 1
ChunkText(f, i) == LET b == (f + i) % 3 IN
                   [body |-> b, len |-> IF b = 0 THEN 150 ELSE 1000]

\* load_pdf / load_text: the chunks of one file, tagged with source_file
load_file(f) ==
    [i \in 1..NumChunks(f) |->
        [page_content |-> ChunkText(f, i), source_file |-> f, start_index |-> i]]

RECURSIVE load_kind(_, _, _)
load_kind(present, f, pdf) ==
    IF f > MaxFiles THEN <<>>
    ELSE (IF f \in present /\ ((f % 2 = 1) <=> pdf) THEN load_file(f) ELSE <<>>)
         \o load_kind(present, f + 1, pdf)

\* load_all_doctrines: the PDFs' chunks, then the text files' chunks
load_all_doctrines(present) ==
    load_kind(present, 1, TRUE) \o load_kind(present, 1, FALSE)

\* create_vector_store: index position i holds documents[i]; an empty
\* document list gives an empty, searchable store
create_vector_store(documents) == documents

\* LocalEmbeddings: the embedding model is a fixed function from text to a
\* vector, here of dimension 1.
embed_documents(text) == 4 * text.body
embed_query(query) ==
    LET type_code == CASE query[1] = "speed_change"      -> 0
                       [] query[1] = "contact_detection" -> 3
                       [] query[1] = "course_change"     -> 7
                       [] OTHER                          -> 5
        desc_code == IF query[2] = "" THEN 0 ELSE 1
    IN  type_code + desc_code

\* IndexFlatL2: squared Euclidean distance
L2(a, b) == (a - b) * (a - b)

\* DoctrineIndexer.search / FAISS.similarity_search: the k nearest chunks,
\* ascending by distance, ties in insertion order; fewer when the store holds
\* fewer than k chunks.
search(store, query, k) ==
    LET q == embed_query(query)
        d(i) == L2(q, embed_documents(store[i].page_content))
        Before(j, i) == d(j) < d(i) \/ (d(j) = d(i) /\ j < i)
        rank(i) == Cardinality({j \in 1..Len(store) : Before(j, i)}) + 1
        at(n) == CHOOSE i \in 1..Len(store) : rank(i) = n
    IN  [n \in 1..Min(k, Len(store)) |-> store[at(n)]]

----------------------------------------------------------------------------
(* rag_pipeline.py: the rule engine *)

\* _get_expected_action_for_event: the key of the table entry used
get_expected_action_for_event(event) ==
    IF event.event_type \in {"speed_change", "course_change", "contact_detection",
                             "man_overboard", "mission_start", "mission_end"}
    THEN event.event_type
    ELSE "standard_procedures"

\* _determine_compliance testing `event.speed` for truth instead of `is not None`
determine_compliance_truthy_speed(event) ==
    LET has_tracking  == event.tracking_number # None
        has_timestamp == event.timestamp # None
    IN  IF event.event_type = "speed_change"
        THEN IF has_tracking /\ has_timestamp /\ event.speed \notin {None, Some(0)}
             THEN "compliant"
             ELSE IF has_timestamp THEN "partial"
             ELSE "non-compliant"
        ELSE IF event.event_type = "contact_detection"
        THEN IF has_tracking /\ has_timestamp THEN "compliant" ELSE "non-compliant"
        ELSE "unclear"

\* _determine_compliance with the speed_change ladder used for contact_detection
determine_compliance_contact_partial(event) ==
    LET has_tracking  == event.tracking_number # None
        has_timestamp == event.timestamp # None
    IN  IF event.event_type = "speed_change"
        THEN IF has_tracking /\ has_timestamp /\ event.speed # None THEN "compliant"
             ELSE IF has_timestamp THEN "partial"
             ELSE "non-compliant"
        ELSE IF event.event_type = "contact_detection"
        THEN IF has_tracking /\ has_timestamp THEN "compliant"
             ELSE IF has_timestamp THEN "partial"
             ELSE "non-compliant"
        ELSE "unclear"

\* _determine_compliance that also classifies course_change
determine_compliance_course_change(event) ==
    LET has_tracking  == event.tracking_number # None
        has_timestamp == event.timestamp # None
    IN  IF event.event_type = "speed_change"
        THEN IF has_tracking /\ has_timestamp /\ event.speed # None THEN "compliant"
             ELSE IF has_timestamp THEN "partial"
             ELSE "non-compliant"
        ELSE IF event.event_type \in {"contact_detection", "course_change"}
        THEN IF has_tracking /\ has_timestamp THEN "compliant" ELSE "non-compliant"
        ELSE "unclear"

\* _determine_compliance
determine_compliance(event) ==
    LET has_tracking  == event.tracking_number # None
        has_timestamp == event.timestamp # None
    IN  IF event.event_type = "speed_change"
        THEN IF has_tracking /\ has_timestamp /\ event.speed # None THEN "compliant"
             ELSE IF has_timestamp THEN "partial"
             ELSE "non-compliant"
        ELSE IF event.event_type = "contact_detection"
        THEN IF has_tracking /\ has_timestamp THEN "compliant" ELSE "non-compliant"
        ELSE "unclear"

\* _determine_severity rating a non-compliant event critical
determine_severity_critical(compliance_status) ==
    CASE compliance_status = "compliant"     -> "info"
      [] compliance_status = "partial"       -> "minor"
      [] compliance_status = "non-compliant" -> "critical"
      [] OTHER                               -> "minor"

\* _determine_severity
determine_severity(compliance_status) ==
    CASE compliance_status = "compliant"     -> "info"
      [] compliance_status = "partial"       -> "minor"
      [] compliance_status = "non-compliant" -> "major"
      [] compliance_status = "unclear"       -> "minor"
      [] OTHER                               -> "minor"

\* _generate_event_analysis: the template chosen and the event type named
generate_event_analysis(event, compliance) ==
    [template   |-> IF compliance \in {"compliant", "partial", "non-compliant"}
                    THEN compliance ELSE "manual_review",
     event_type |-> event.event_type]

\* page_content[:200]
Prefix200(text) == [body |-> text.body, len |-> Min(text.len, 200)]

\* DoctrineReference built from one retrieved document
DoctrineReference(doc) ==
    [doctrine_id   |-> doc.source_file,
     doctrine_name |-> doc.source_file,
     section       |-> "General",
     requirement   |-> Prefix200(doc.page_content),
     context       |-> doc.page_content]

\* doctrine_docs[:3]
doctrine_refs_docs_top3(doctrine_docs) == Take(doctrine_docs, 3)

\* doctrine_docs[:2]
doctrine_refs_docs(doctrine_docs) == Take(doctrine_docs, 2)

\* _analyze_event_against_doctrine
analyze_event_against_doctrine(event, doctrine_docs) ==
    LET expected_action   == get_expected_action_for_event(event)
        compliance_status == determine_compliance(event)
        top               == doctrine_refs_docs(doctrine_docs)
    IN  [timestamp           |-> event.timestamp,
         event_description   |-> event.description,
         actual_action       |-> event.description,
         expected_action     |-> expected_action,
         compliance_status   |-> compliance_status,
         doctrine_references |-> [i \in 1..Len(top) |-> DoctrineReference(top[i])],
         analysis            |-> generate_event_analysis(event, compliance_status),
         severity            |-> determine_severity(compliance_status)]

----------------------------------------------------------------------------
(* rag_pipeline.py: the pipeline nodes *)

\* compliant / total * 100 as an exact fraction in lowest terms
Score(compliant, total) ==
    LET g == GCD(compliant * 100, total)
    IN  [num |-> (compliant * 100) \div g, den |-> total \div g]

\* 0 and 0.0
ZeroScore == [num |-> 0, den |-> 1]

IsCompliant(c) == c.compliance_status = "compliant"
IsPartial(c) == c.compliance_status = "partial"
IsNonCompliant(c) == c.compliance_status = "non-compliant"

\* the query f"{event.event_type}: {event.description}"
event_description(event) == <<event.event_type, event.description>>

\* the searches of _retrieve_doctrine_node, concatenated: one search with
\* k=3 for each of event_descriptions[:5]
RECURSIVE extend_searches(_, _)
extend_searches(store, descs) ==
    IF descs = <<>> THEN <<>>
    ELSE search(store, Head(descs), 3) \o extend_searches(store, Tail(descs))

\* duplicates removed by whole document (content and metadata)
RECURSIVE remove_duplicates_by_doc(_, _)
remove_duplicates_by_doc(docs, seen) ==
    IF docs = <<>> THEN <<>>
    ELSE IF Head(docs) \notin seen
         THEN <<Head(docs)>> \o remove_duplicates_by_doc(Tail(docs), seen \cup {Head(docs)})
         ELSE remove_duplicates_by_doc(Tail(docs), seen)

\* "Remove duplicates based on content": keep a document when its
\* page_content has not been seen before
RECURSIVE remove_duplicates(_, _)
remove_duplicates(docs, seen_content) ==
    IF docs = <<>> THEN <<>>
    ELSE IF Head(docs).page_content \notin seen_content
         THEN <<Head(docs)>> \o
              remove_duplicates(Tail(docs), seen_content \cup {Head(docs).page_content})
         ELSE remove_duplicates(Tail(docs), seen_content)

\* the retrieval loop running over every event description
searched_events_all(events) == events

\* the events _retrieve_doctrine_node searches for
searched_events(events) == Take(events, 5)

\* _retrieve_doctrine_node as a function of the indexer's store and the
\* log's events: the documents found and the deduplicated context
retrieve_doctrine_node(store, log_events) ==
    LET events == searched_events(log_events)
        descs  == [i \in 1..Len(events) |-> event_description(events[i])]
        found  == extend_searches(store, descs)
    IN  [all_doctrine_docs |-> found, doctrine_context |-> remove_duplicates(found, {})]

\* the comparison loop limited like the retrieval loop
compared_events_first5(events) == Take(events, 5)

\* the events _compare_actions_node compares
compared_events(events) == events

\* overall_score counting partial comparisons as compliant
overall_score_lenient(comparisons) ==
    LET Passes(c) == IsCompliant(c) \/ IsPartial(c)
    IN  IF comparisons # <<>>
        THEN Score(Count(comparisons, Passes), Len(comparisons))
        ELSE ZeroScore

\* overall_score of analyze_mission
overall_score(comparisons) ==
    IF comparisons # <<>>
    THEN Score(Count(comparisons, IsCompliant), Len(comparisons))
    ELSE ZeroScore

----------------------------------------------------------------------------
(* The inputs *)

Times == 1..MaxTime

GoodTimestamps == {RawTimestamp("str", 2, t) : t \in Times} \cup {RawTimestamp("num", 0, 1)}
BadTimestamps == {RawTimestamp("absent", 0, 0), RawTimestamp("null", 0, 0),
                  RawTimestamp("str", 0, 0)}
RawTimestamps == GoodTimestamps \cup BadTimestamps

EventTypes == {"speed_change", "contact_detection", "course_change", "man_overboard",
               "mission_start", "mission_end", "unknown_type"}

\* every shape of a single event
RawEvents ==
    [timestamp       : RawTimestamps,
     event_type      : {None} \cup {Some(t) : t \in EventTypes},
     description     : {None, Some("d1")},
     tracking_number : {None, Some("TRK-001")},
     speed           : {None, Some(0), Some(15)}]

RawEvent(t, type, desc, trk, spd) ==
    [timestamp |-> RawTimestamp("str", 2, t), event_type |-> Some(type),
     description |-> Some(desc), tracking_number |-> trk, speed |-> spd]

\* the events longer logs are made of: one per compliance status
SampleEvents ==
    {RawEvent(1, "speed_change", "d1", Some("TRK-001"), Some(15)),
     RawEvent(MaxTime, "speed_change", "d2", None, Some(5)),
     RawEvent(MaxTime, "contact_detection", "d3", None, None),
     RawEvent(MaxTime, "course_change", "d4", Some("TRK-001"), Some(15))}

\* the events the longest logs are made of
LongEvents ==
    {RawEvent(1, "speed_change", "d1", Some("TRK-001"), Some(15)),
     RawEvent(MaxTime, "contact_detection", "d3", None, None)}

RECURSIVE SeqsUpTo(_, _)
SeqsUpTo(S, n) ==
    IF n = 0 THEN {<<>>}
    ELSE LET shorter == SeqsUpTo(S, n - 1)
         IN  shorter \cup {Append(s, e) : s \in {t \in shorter : Len(t) = n - 1}, e \in S}

GoodTime == RawTimestamp("str", 2, 1)

\* the mission logs analysed: every single event in a well-formed log, every
\* start_time and end_time around a short log, logs of up to MaxMixed sample
\* events and logs of up to MaxEvents of the two LongEvents
MissionData ==
    LET named == [mission_id : {Some("M1")}, mission_name : {Some("N1")},
                  vessel_name : {Some("V1")}]
        keyed == [mission_id : {None, Some("M1")}, mission_name : {None, Some("N1")},
                  vessel_name : {None, Some("V1")}]
        Log(h, st, et, ev) ==
            [mission_id |-> h.mission_id, mission_name |-> h.mission_name,
             vessel_name |-> h.vessel_name, start_time |-> st, end_time |-> et,
             events |-> ev]
    IN  {Log(h, GoodTime, GoodTime, <<e>>) : h \in named, e \in RawEvents}
        \cup {Log(h, tt[1], tt[2], ev) :
                 h \in named, tt \in RawTimestamps \X RawTimestamps,
                 ev \in SeqsUpTo(SampleEvents, 1)}
        \cup {Log(h, GoodTime, GoodTime, ev) : h \in keyed, ev \in SeqsUpTo(SampleEvents, 1)}
        \cup {Log(h, GoodTime, GoodTime, ev) :
                 h \in named,
                 ev \in SeqsUpTo(SampleEvents, MaxMixed) \cup SeqsUpTo(LongEvents, MaxEvents)}
        \cup {generate_sample_mission_log}

\* the stores the pipeline's indexer may hold once constructed
VectorStores ==
    {create_vector_store(load_all_doctrines(present)) : present \in SUBSET DoctrineFiles}

----------------------------------------------------------------------------
(* The state machine: one analysis request *)

\* no index_doctrines call has been made yet
NoCall ==
    [force |-> FALSE, outcome |-> "none", read_docs |-> FALSE, wrote |-> FALSE,
     store_before |-> None, persisted_before |-> [exists |-> FALSE, loadable |-> FALSE, docs |-> <<>>],
     target |-> None, to_load |-> <<>>, documents |-> <<>>,
     prev_force |-> FALSE, prev_outcome |-> "none"]

\* no search has been made yet
NoSearch ==
    [outcome |-> "none", seen |-> None, before |-> None, target |-> None,
     after_index |-> FALSE, reindexing |-> FALSE, found |-> 0]

\* no doctrine index on disk
NoIndexOnDisk == [exists |-> FALSE, loadable |-> FALSE, docs |-> <<>>]

\* the mission ids a parsed log can carry
MissionIds == {"M1", "M2", "unknown"}

\* no request has been answered yet
NoResponse == [status |-> 0, detail |-> "", body |-> None]
NoGet == [mission_id |-> "", status |-> 0, body |-> None]

\* no reindex has been requested yet
NoReindex ==
    [status |-> 0, corpus_empty |-> FALSE,
     disk_before |-> [exists |-> FALSE, loadable |-> FALSE, docs |-> <<>>]]

\* `stored_analyses: dict = {}`
NoStoredAnalyses == [id \in MissionIds |-> None]

\* an API process that has received no request
ApiIdle ==
    /\ requests = <<>>
    /\ current = 0
    /\ stored_analyses = NoStoredAnalyses
    /\ last_get = NoGet
    /\ last_reindex = NoReindex

\* a DoctrineIndexer right after construction, over an empty doctrine directory
IndexerIdle ==
    /\ doctrines_dir = {}
    /\ unreadable = {}
    /\ persisted = NoIndexOnDisk
    /\ indexer_store = None
    /\ ipc = "idle"
    /\ call = NoCall
    /\ indexed = FALSE
    /\ last_search = NoSearch

Init ==
    /\ mission_data \in MissionData
    /\ vector_store \in VectorStores
    /\ pc = "parse"
    /\ error = ""
    /\ mission_log = None
    /\ current_event = None
    /\ all_doctrine_docs = <<>>
    /\ doctrine_context = <<>>
    /\ comparison_results = <<>>
    /\ summary = None
    /\ lessons_learned = <<>>
    /\ recommendations = <<>>
    /\ analysis = None
    /\ IndexerIdle
    /\ ApiIdle

AccState == <<current_event, all_doctrine_docs, doctrine_context, comparison_results,
              summary, lessons_learned, recommendations>>

\* MissionLogParser.parse_json_data succeeds
ParseOk ==
    /\ UNCHANGED OtherVars
    /\ pc = "parse"
    /\ parse_json_data(mission_data).err = ""
    /\ mission_log' = parse_json_data(mission_data).val
    /\ pc' = "analyze_mission"
    /\ UNCHANGED <<mission_data, vector_store, error, AccState, analysis>>

\* MissionLogParser.parse_json_data raises
ParseFail ==
    /\ UNCHANGED OtherVars
    /\ pc = "parse"
    /\ parse_json_data(mission_data).err # ""
    /\ error' = parse_json_data(mission_data).err
    /\ pc' = "failed"
    /\ UNCHANGED <<mission_data, vector_store, mission_log, AccState, analysis>>

\* analyze_mission up to graph.invoke: the initial state
AnalyzeMissionBegin ==
    /\ UNCHANGED OtherVars
    /\ pc = "analyze_mission"
    /\ current_event' = None
    /\ all_doctrine_docs' = <<>>
    /\ doctrine_context' = <<>>
    /\ comparison_results' = <<>>
    /\ summary' = None
    /\ lessons_learned' = <<>>
    /\ recommendations' = <<>>
    /\ pc' = "analyze_events"
    /\ UNCHANGED <<mission_data, vector_store, error, mission_log, analysis>>

\* _analyze_events_node
AnalyzeEventsNode ==
    /\ UNCHANGED OtherVars
    /\ pc = "analyze_events"
    /\ comparison_results' = <<>>
    /\ current_event' = IF mission_log[1].events # <<>>
                        THEN Some(mission_log[1].events[1]) ELSE None
    /\ pc' = "retrieve_doctrine"
    /\ UNCHANGED <<mission_data, vector_store, error, mission_log, all_doctrine_docs,
                   doctrine_context, summary, lessons_learned, recommendations, analysis>>

\* _retrieve_doctrine_node
RetrieveDoctrineNode ==
    /\ UNCHANGED OtherVars
    /\ pc = "retrieve_doctrine"
    /\ LET retrieved == retrieve_doctrine_node(vector_store, mission_log[1].events)
       IN  /\ all_doctrine_docs' = retrieved.all_doctrine_docs
           /\ doctrine_context' = retrieved.doctrine_context
    /\ pc' = "compare_actions"
    /\ UNCHANGED <<mission_data, vector_store, error, mission_log, current_event,
                   comparison_results, summary, lessons_learned, recommendations, analysis>>

\* _compare_actions_node
CompareActionsNode ==
    /\ UNCHANGED OtherVars
    /\ pc = "compare_actions"
    /\ LET events == compared_events(mission_log[1].events)
       IN  comparison_results' =
               [i \in 1..Len(events) |->
                   analyze_event_against_doctrine(events[i], doctrine_context)]
    /\ pc' = "generate_summary"
    /\ UNCHANGED <<mission_data, vector_store, error, mission_log, current_event,
                   all_doctrine_docs, doctrine_context, summary, lessons_learned,
                   recommendations, analysis>>

\* the lessons learned with "excellent" decided by the absence of failures
lessons_no_failures(total_events, compliant, partial, non_compliant) ==
    (IF non_compliant > 0 THEN <<[lesson |-> "not_met", count |-> non_compliant]>> ELSE <<>>)
    \o (IF partial > 0 THEN <<[lesson |-> "partial", count |-> partial]>> ELSE <<>>)
    \o (IF non_compliant = 0 /\ partial = 0
        THEN <<[lesson |-> "excellent", count |-> 0]>> ELSE <<>>)

\* the lessons learned of _generate_summary_node
lessons(total_events, compliant, partial, non_compliant) ==
    (IF non_compliant > 0 THEN <<[lesson |-> "not_met", count |-> non_compliant]>> ELSE <<>>)
    \o (IF partial > 0 THEN <<[lesson |-> "partial", count |-> partial]>> ELSE <<>>)
    \o (IF compliant = total_events THEN <<[lesson |-> "excellent", count |-> 0]>> ELSE <<>>)

\* the recommendations of _generate_summary_node
recommend(partial, non_compliant) ==
    (IF non_compliant > 0 \/ partial > 0
     THEN <<"refresher_training", "pre_mission_checklist">> ELSE <<>>)
    \o <<"post_mission_debriefs">>

\* The summary f-string interpolates {compliant/total_events*100:.1f}; the
\* text "if total_events > 0 else 0" after it is part of the string, not a
\* guard, so the division is evaluated for every total_events.
summary_divides_by_zero(total_events) == total_events = 0

\* _generate_summary_node
GenerateSummaryNode ==
    /\ UNCHANGED OtherVars
    /\ pc = "generate_summary"
    /\ LET total_events  == Len(comparison_results)
           compliant     == Count(comparison_results, IsCompliant)
           partial       == Count(comparison_results, IsPartial)
           non_compliant == Count(comparison_results, IsNonCompliant)
           compliance_score == IF total_events > 0 THEN Score(compliant, total_events)
                               ELSE ZeroScore
       IN  IF summary_divides_by_zero(total_events)
           THEN /\ error' = "ZeroDivisionError"
                /\ pc' = "failed"
                /\ UNCHANGED <<summary, lessons_learned, recommendations>>
           ELSE /\ summary' = Some([total_events     |-> total_events,
                                    compliant        |-> compliant,
                                    percent          |-> Score(compliant, total_events),
                                    partial          |-> partial,
                                    non_compliant    |-> non_compliant,
                                    compliance_score |-> compliance_score])
                /\ lessons_learned' = lessons(total_events, compliant, partial, non_compliant)
                /\ recommendations' = recommend(partial, non_compliant)
                /\ pc' = "package"
                /\ UNCHANGED error
    /\ UNCHANGED <<mission_data, vector_store, mission_log, current_event,
                   all_doctrine_docs, doctrine_context, comparison_results, analysis>>

\* analyze_mission after graph.invoke: the score and the MissionAnalysis
AnalyzeMissionReturn ==
    /\ UNCHANGED OtherVars
    /\ pc = "package"
    /\ analysis' = Some([mission_id               |-> mission_log[1].mission_id,
                         mission_name             |-> mission_log[1].mission_name,
                         comparisons              |-> comparison_results,
                         summary                  |-> summary,
                         lessons_learned          |-> lessons_learned,
                         recommendations          |-> recommendations,
                         overall_compliance_score |-> overall_score(comparison_results)])
    /\ pc' = "returned"
    /\ UNCHANGED <<mission_data, vector_store, error, mission_log, AccState>>

Next ==
    \/ ParseOk
    \/ ParseFail
    \/ AnalyzeMissionBegin
    \/ AnalyzeEventsNode
    \/ RetrieveDoctrineNode
    \/ CompareActionsNode
    \/ GenerateSummaryNode
    \/ AnalyzeMissionReturn

Spec == Init /\ [][Next]_vars

-----------------------------------------------------------------------------
(* The state machine of one DoctrineIndexer: index_doctrines and search *)

\* Path.glob over DOCTRINES_DIR, one kind of file at a time
RECURSIVE glob(_, _, _)
glob(present, f, pdf) ==
    IF f > MaxFiles THEN <<>>
    ELSE (IF f \in present /\ ((f % 2 = 1) <=> pdf) THEN <<f>> ELSE <<>>)
         \o glob(present, f + 1, pdf)

\* the files load_all_doctrines walks, in its order: the PDFs, then the text files
doctrine_paths(present) == glob(present, 1, TRUE) \o glob(present, 1, FALSE)

\* index_doctrines: `if index_path.exists() and not force_reindex`
uses_persisted(disk, force) == disk.exists /\ ~force

\* search testing the store for truth instead of `is None`
search_not_indexed_falsy(store) == store \in {None, Some(<<>>)}

\* search: `if self.vector_store is None: raise ValueError("Vector store not initialized...")`
search_not_indexed(store) == store = None

\* index_doctrines adding the chunks to the store the indexer already holds
install_merging(installed, index) ==
    IF installed = None THEN Some(index) ELSE Some(installed[1] \o index)

\* index_doctrines: `self.vector_store = FAISS.load_local(...)` and
\* `self.vector_store = self.create_vector_store(documents)` rebind the
\* attribute to a new store, whatever store the indexer held
install(installed, index) == Some(index)

\* load_all_doctrines publishing the chunks loaded so far as the indexer's store
store_while_loading_partial(installed, all_docs) == Some(create_vector_store(all_docs))

\* load_all_doctrines collects into the local all_docs: the indexer's store is
\* not touched while the documents are loaded
store_while_loading(installed, all_docs) == installed

\* the states of VECTOR_STORE_DIR/doctrine_index: absent, present but not
\* loadable, or the saved index of some document list (never of an empty one)
DiskStates ==
    {NoIndexOnDisk, [exists |-> TRUE, loadable |-> FALSE, docs |-> <<>>]}
    \cup {[exists |-> TRUE, loadable |-> TRUE, docs |-> v] : v \in VectorStores \ {<<>>}}

\* the queries and result sizes the callers of search use
Queries == {<<"speed_change", "">>, <<"course_change", "x">>}
SearchK == {3, 5}

\* no analysis request is being served
AnalysisIdle ==
    /\ mission_data = generate_sample_mission_log
    /\ pc = "idle"
    /\ error = ""
    /\ mission_log = None
    /\ current_event = None
    /\ all_doctrine_docs = <<>>
    /\ doctrine_context = <<>>
    /\ comparison_results = <<>>
    /\ summary = None
    /\ lessons_learned = <<>>
    /\ recommendations = <<>>
    /\ analysis = None

InitIndexer ==
    /\ AnalysisIdle
    /\ vector_store = <<>>
    /\ doctrines_dir \in SUBSET DoctrineFiles
    /\ unreadable \in SUBSET doctrines_dir
    /\ persisted \in DiskStates
    /\ indexer_store = None
    /\ ipc = "idle"
    /\ call = NoCall
    /\ indexed = FALSE
    /\ last_search = NoSearch
    /\ ApiIdle

\* index_doctrines up to the call of load_all_doctrines: a loadable persisted
\* index is installed and the call returns; otherwise (none on disk, forced,
\* or load_local raised) the documents are read
IndexDoctrinesBegin(force) ==
    /\ ipc = "idle"
    /\ LET started == [NoCall EXCEPT !.force = force, !.outcome = "running",
                                     !.store_before = indexer_store,
                                     !.persisted_before = persisted,
                                     !.prev_force = call.force,
                                     !.prev_outcome = call.outcome]
       IN  IF uses_persisted(persisted, force) /\ persisted.loadable
           THEN /\ indexer_store' = install(indexer_store, persisted.docs)
                /\ call' = [started EXCEPT !.outcome = "loaded",
                                           !.target = Some(persisted.docs)]
                /\ ipc' = "idle"
                /\ indexed' = TRUE
           ELSE /\ call' = [started EXCEPT
                                !.read_docs = TRUE,
                                !.to_load = doctrine_paths(doctrines_dir),
                                !.target = Some(create_vector_store(
                                               load_all_doctrines(doctrines_dir)))]
                /\ ipc' = "load"
                /\ UNCHANGED <<indexer_store, indexed>>
    /\ UNCHANGED <<doctrines_dir, unreadable, persisted, last_search>>
    /\ UNCHANGED <<AnalysisVars, ApiVars>>

\* load_all_doctrines, one iteration of its loops: load_pdf / load_text of the
\* next file; an exception of the loader is not caught, neither here nor in
\* index_doctrines, and ends the call
LoadDoctrine ==
    /\ ipc = "load"
    /\ call.to_load # <<>>
    /\ LET f == Head(call.to_load)
       IN  IF f \in unreadable
           THEN /\ call' = [call EXCEPT !.outcome = "raised", !.to_load = <<>>]
                /\ ipc' = "idle"
                /\ UNCHANGED indexer_store
           ELSE /\ call' = [call EXCEPT !.documents = @ \o load_file(f),
                                        !.to_load = Tail(@)]
                /\ indexer_store' = store_while_loading(indexer_store, call'.documents)
                /\ UNCHANGED ipc
    /\ UNCHANGED <<doctrines_dir, unreadable, persisted, indexed, last_search>>
    /\ UNCHANGED <<AnalysisVars, ApiVars>>

\* index_doctrines: `self.vector_store = self.create_vector_store(documents)`
CreateVectorStore ==
    /\ ipc = "load"
    /\ call.to_load = <<>>
    /\ indexer_store' = install(indexer_store, create_vector_store(call.documents))
    /\ ipc' = "save"
    /\ UNCHANGED <<doctrines_dir, unreadable, persisted, call, indexed, last_search>>
    /\ UNCHANGED <<AnalysisVars, ApiVars>>

\* index_doctrines: `if documents: self.vector_store.save_local(...)`, return
SaveAndReturn ==
    /\ ipc = "save"
    /\ IF call.documents # <<>>
       THEN /\ persisted' = [exists |-> TRUE, loadable |-> TRUE, docs |-> indexer_store[1]]
            /\ call' = [call EXCEPT !.outcome = "rebuilt", !.wrote = TRUE]
       ELSE /\ call' = [call EXCEPT !.outcome = "rebuilt"]
            /\ UNCHANGED persisted
    /\ ipc' = "idle"
    /\ indexed' = TRUE
    /\ UNCHANGED <<doctrines_dir, unreadable, indexer_store, last_search>>
    /\ UNCHANGED <<AnalysisVars, ApiVars>>

\* DoctrineIndexer.search, by a caller running at any point of index_doctrines
Search(query, k) ==
    /\ last_search' =
          IF search_not_indexed(indexer_store)
          THEN [NoSearch EXCEPT !.outcome = "not_indexed", !.seen = indexer_store,
                                !.before = call.store_before, !.target = call.target,
                                !.after_index = indexed, !.reindexing = (ipc # "idle")]
          ELSE [outcome |-> "ok", seen |-> indexer_store,
                before |-> call.store_before, target |-> call.target,
                after_index |-> indexed, reindexing |-> (ipc # "idle"),
                found |-> Len(search(indexer_store[1], query, k))]
    /\ UNCHANGED <<doctrines_dir, unreadable, persisted, indexer_store, ipc, call, indexed>>
    /\ UNCHANGED <<AnalysisVars, ApiVars>>

NextIndexer ==
    \/ \E force \in BOOLEAN : IndexDoctrinesBegin(force)
    \/ LoadDoctrine
    \/ CreateVectorStore
    \/ SaveAndReturn
    \/ \E query \in Queries, k \in SearchK : Search(query, k)

SpecIndexer == InitIndexer /\ [][NextIndexer]_vars

-----------------------------------------------------------------------------
(* The state machine of the API process: api.py after startup *)

\* the bodies posted to /api/missions/analyze
ApiMissionData ==
    LET Log(id, st, ev) ==
            [mission_id |-> id, mission_name |-> Some("N1"), vessel_name |-> Some("V1"),
             start_time |-> st, end_time |-> GoodTime, events |-> ev]
        tracked   == RawEvent(1, "speed_change", "d1", Some("TRK-001"), Some(15))
        untracked == RawEvent(MaxTime, "speed_change", "d2", None, Some(5))
    IN  {Log(Some("M1"), GoodTime, <<tracked>>),
         Log(Some("M1"), GoodTime, <<untracked>>),
         Log(Some("M1"), GoodTime, <<>>),
         Log(Some("M2"), GoodTime, <<tracked>>),
         Log(Some("M2"), RawTimestamp("str", 0, 0), <<tracked>>),
         Log(None, GoodTime, <<untracked>>)}

\* the mission id a request body names
RequestId(data) == Get(data.mission_id, "unknown")

\* an event loop that starts a handler while another one runs
event_loop_shared == TRUE

\* handlers declared `async def` that never await run to their end once
\* started: a handler starts only when none is on the event loop
event_loop_free == current = 0

\* the except branch of the analyze handler clearing the mission's entry
stored_after_failure_cleared(stored, log) ==
    IF log = None THEN stored ELSE [stored EXCEPT ![log[1].mission_id] = None]

\* analyze handler, `except Exception`: HTTPException(500) is raised and
\* stored_analyses is not touched
stored_after_failure(stored, log) == stored

\* the pipeline's state between two requests
AnalysisBackToIdle ==
    /\ mission_data' = generate_sample_mission_log
    /\ pc' = "idle"
    /\ error' = ""
    /\ mission_log' = None
    /\ current_event' = None
    /\ all_doctrine_docs' = <<>>
    /\ doctrine_context' = <<>>
    /\ comparison_results' = <<>>
    /\ summary' = None
    /\ lessons_learned' = <<>>
    /\ recommendations' = <<>>
    /\ analysis' = None
    /\ UNCHANGED vector_store

InitApi ==
    /\ AnalysisIdle
    /\ vector_store = create_vector_store(load_all_doctrines(DoctrineFiles))
    /\ IndexerIdle
    /\ requests \in [1..MaxRequests ->
                        [data : ApiMissionData, status : {"pending"},
                         stored_before : {NoStoredAnalyses}, stored_after : {NoStoredAnalyses},
                         response : {NoResponse}]]
    /\ current = 0
    /\ stored_analyses = NoStoredAnalyses
    /\ last_get = NoGet
    /\ last_reindex = NoReindex

\* POST /api/missions/analyze: the handler of request r starts
ApiAnalyzeBegin(r) ==
    /\ event_loop_free
    /\ requests[r].status = "pending"
    /\ requests' = [requests EXCEPT ![r].status = "running",
                                    ![r].stored_before = stored_analyses]
    /\ current' = r
    /\ mission_data' = requests[r].data
    /\ pc' = "parse"
    /\ error' = ""
    /\ mission_log' = None
    /\ analysis' = None
    /\ UNCHANGED <<vector_store, AccState, stored_analyses, last_get, last_reindex, IndexerVars>>

\* the handler after rag_pipeline.analyze_mission returned:
\* `stored_analyses[mission.mission_id] = analysis`, `return analysis`
ApiAnalyzeStore ==
    /\ current # 0
    /\ pc = "returned"
    /\ stored_analyses' = [stored_analyses EXCEPT ![mission_log[1].mission_id] = analysis]
    /\ requests' = [requests EXCEPT
                       ![current].status = "answered",
                       ![current].stored_after = stored_analyses',
                       ![current].response = [status |-> 200, detail |-> "", body |-> analysis]]
    /\ current' = 0
    /\ AnalysisBackToIdle
    /\ UNCHANGED <<last_get, last_reindex, IndexerVars>>

\* the handler after parse_json_data or analyze_mission raised:
\* `raise HTTPException(status_code=500, ...)`
ApiAnalyzeError ==
    /\ current # 0
    /\ pc = "failed"
    /\ stored_analyses' = stored_after_failure(stored_analyses, mission_log)
    /\ requests' = [requests EXCEPT
                       ![current].status = "answered",
                       ![current].stored_after = stored_analyses',
                       ![current].response = [status |-> 500, detail |-> error, body |-> None]]
    /\ current' = 0
    /\ AnalysisBackToIdle
    /\ UNCHANGED <<last_get, last_reindex, IndexerVars>>

\* GET /api/missions/{mission_id}/analysis
GetMissionAnalysis(mission_id) ==
    /\ event_loop_free
    /\ last_get' = IF stored_analyses[mission_id] = None
                   THEN [mission_id |-> mission_id, status |-> 404, body |-> None]
                   ELSE [mission_id |-> mission_id, status |-> 200,
                         body |-> stored_analyses[mission_id]]
    /\ UNCHANGED <<requests, current, stored_analyses, last_reindex, AnalysisVars, IndexerVars>>

NextApi ==
    \/ \E r \in DOMAIN requests : ApiAnalyzeBegin(r)
    \/ ParseOk
    \/ ParseFail
    \/ AnalyzeMissionBegin
    \/ AnalyzeEventsNode
    \/ RetrieveDoctrineNode
    \/ CompareActionsNode
    \/ GenerateSummaryNode
    \/ AnalyzeMissionReturn
    \/ ApiAnalyzeStore
    \/ ApiAnalyzeError
    \/ \E mission_id \in MissionIds : GetMissionAnalysis(mission_id)

SpecApi == InitApi /\ [][NextApi]_vars

-----------------------------------------------------------------------------
(* The state machine of doctrine reindexing: api.py, POST /api/doctrines/reindex *)

\* index_doctrines as a function: on an indexer holding `installed`, with
\* `disk` as the persisted index, `files` in DOCTRINES_DIR of which `bad`
\* fail to load; gives whether it raised, the indexer's store and the disk
index_doctrines(installed, disk, files, bad, force) ==
    IF uses_persisted(disk, force) /\ disk.loadable
    THEN [raised |-> FALSE, vector_store |-> install(installed, disk.docs), persisted |-> disk]
    ELSE IF files \cap bad # {}
    THEN [raised |-> TRUE, vector_store |-> installed, persisted |-> disk]
    ELSE LET documents == load_all_doctrines(files)
             built     == create_vector_store(documents)
         IN  [raised       |-> FALSE,
              vector_store |-> install(installed, built),
              persisted    |-> IF documents # <<>>
                               THEN [exists |-> TRUE, loadable |-> TRUE, docs |-> built]
                               ELSE disk]

\* create_sample_doctrine writes the text file sample_naval_doctrine.txt
SampleDoctrineFile == 2

\* what neither the reindex handler nor a change of the corpus touches
ReindexFrame == <<mission_data, pc, error, mission_log, AccState, analysis,
                  ipc, call, indexed, last_search,
                  requests, current, stored_analyses, last_get>>

\* startup_event has run: the sample doctrine was written if there was no
\* doctrine file, the global indexer indexed the doctrines, and the pipeline
\* was constructed, its own indexer indexing them again
InitReindex ==
    /\ AnalysisIdle
    /\ ipc = "idle"
    /\ call = NoCall
    /\ indexed = FALSE
    /\ last_search = NoSearch
    /\ requests = <<>>
    /\ current = 0
    /\ stored_analyses = NoStoredAnalyses
    /\ last_get = NoGet
    /\ last_reindex = NoReindex
    /\ unreadable = {}
    /\ \E files \in SUBSET DoctrineFiles, disk \in DiskStates :
          LET dir    == IF files = {} THEN {SampleDoctrineFile} ELSE files
              global == index_doctrines(None, disk, dir, {}, FALSE)
              pipe   == index_doctrines(None, global.persisted, dir, {}, FALSE)
          IN  /\ doctrines_dir = dir
              /\ persisted = pipe.persisted
              /\ indexer_store = global.vector_store
              /\ vector_store = pipe.vector_store[1]

\* a doctrine file is put into DOCTRINES_DIR
AddDoctrineFile(f) ==
    /\ f \notin doctrines_dir
    /\ doctrines_dir' = doctrines_dir \cup {f}
    /\ UNCHANGED <<unreadable, persisted, indexer_store, vector_store, last_reindex>>
    /\ UNCHANGED ReindexFrame

\* a doctrine file is removed from DOCTRINES_DIR
RemoveDoctrineFile(f) ==
    /\ f \in doctrines_dir
    /\ doctrines_dir' = doctrines_dir \ {f}
    /\ unreadable' = unreadable \ {f}
    /\ UNCHANGED <<persisted, indexer_store, vector_store, last_reindex>>
    /\ UNCHANGED ReindexFrame

\* a doctrine file of DOCTRINES_DIR is replaced by one that does not load
DamageDoctrineFile(f) ==
    /\ f \in doctrines_dir \ unreadable
    /\ unreadable' = unreadable \cup {f}
    /\ UNCHANGED <<doctrines_dir, persisted, indexer_store, vector_store, last_reindex>>
    /\ UNCHANGED ReindexFrame

\* reindex_doctrines: doctrine_indexer.index_doctrines(force_reindex=True),
\* then rag_pipeline = MissionAnalysisRAG(...), whose constructor makes a
\* new DoctrineIndexer and calls index_doctrines() on it; any exception
\* becomes HTTPException(500)
ReindexDoctrines ==
    LET global == index_doctrines(indexer_store, persisted, doctrines_dir, unreadable, TRUE)
        pipe   == index_doctrines(None, global.persisted, doctrines_dir, unreadable, FALSE)
        answer(status) == [status       |-> status,
                           corpus_empty |-> load_all_doctrines(doctrines_dir) = <<>>,
                           disk_before  |-> persisted]
    IN  /\ IF global.raised
           THEN /\ last_reindex' = answer(500)
                /\ UNCHANGED <<persisted, indexer_store, vector_store>>
           ELSE /\ indexer_store' = global.vector_store
                /\ IF pipe.raised
                   THEN /\ persisted' = global.persisted
                        /\ last_reindex' = answer(500)
                        /\ UNCHANGED vector_store
                   ELSE /\ persisted' = pipe.persisted
                        /\ vector_store' = pipe.vector_store[1]
                        /\ last_reindex' = answer(200)
        /\ UNCHANGED <<doctrines_dir, unreadable>>
        /\ UNCHANGED ReindexFrame

NextReindex ==
    \/ \E f \in DoctrineFiles : AddDoctrineFile(f)
    \/ \E f \in DoctrineFiles : RemoveDoctrineFile(f)
    \/ \E f \in DoctrineFiles : DamageDoctrineFile(f)
    \/ ReindexDoctrines

SpecReindex == InitReindex /\ [][NextReindex]_vars

----------------------------------------------------------------------------
(* Properties *)

Parsed == mission_log # None
Events == mission_log[1].events
Finished == pc \in {"returned", "failed"}
Compared == pc \in {"generate_summary", "package", "returned"}
Retrieved == pc \in {"compare_actions", "generate_summary", "package", "returned"}

\* C1: for a mission log with zero events analyze_mission completes without
\* raising and returns a MissionAnalysis with no comparisons and score 0.
C1_EmptyLogScoresZero ==
    (Parsed /\ Finished /\ Events = <<>>) =>
        /\ pc = "returned"
        /\ analysis # None
        /\ analysis[1].comparisons = <<>>
        /\ analysis[1].overall_compliance_score = ZeroScore

\* C2: for a mission log with at least one event the call returns, and the
\* returned score is compliant / total * 100 over the returned comparisons:
\* within 0..100, 100 exactly when all are compliant, 0 exactly when none is.
C2_ScoreLaw ==
    (Parsed /\ Finished /\ Events # <<>>) =>
        /\ pc = "returned"
        /\ analysis # None
        /\ LET comps == analysis[1].comparisons
               n     == Len(comps)
               c     == Cardinality({i \in 1..n : comps[i].compliance_status = "compliant"})
               score == analysis[1].overall_compliance_score
           IN  /\ n >= 1
               /\ score.den > 0
               /\ score.num * n = 100 * c * score.den
               /\ 0 <= score.num /\ score.num <= 100 * score.den
               /\ (score.num = 100 * score.den) <=> (c = n)
               /\ (score.num = 0) <=> (c = 0)

C2_Witness ==
    /\ pc = "returned"
    /\ Len(analysis[1].comparisons) = 3
    /\ analysis[1].overall_compliance_score = [num |-> 100, den |-> 3]

\* C3: a speed_change event is compliant exactly when tracking_number,
\* timestamp and speed are all present, and partial when it has a timestamp
\* and a speed but no tracking_number.
C3_SpeedChangeRule ==
    Compared =>
        \A i \in 1..Len(Events) :
            Events[i].event_type = "speed_change" =>
                LET e == Events[i]
                    status == comparison_results[i].compliance_status
                IN  /\ (status = "compliant") <=>
                           (e.tracking_number # None /\ e.timestamp # None /\ e.speed # None)
                    /\ (e.timestamp # None /\ e.speed # None /\ e.tracking_number = None)
                           => status = "partial"

C3_Witness ==
    /\ Compared
    /\ \E i, j \in 1..Len(Events) :
          /\ Events[i].event_type = "speed_change"
          /\ Events[i].tracking_number # None /\ Events[i].speed # None
          /\ comparison_results[i].compliance_status = "compliant"
          /\ Events[j].event_type = "speed_change"
          /\ Events[j].tracking_number = None /\ Events[j].speed # None
          /\ comparison_results[j].compliance_status = "partial"

NoTimestamp(event_data) == event_data.timestamp.kind \in {"absent", "null"}
IsRawSpeedChange(event_data) == event_data.event_type = Some("speed_change")

\* C4 as stated: a log holding a speed_change event without timestamp is
\* parsed and analysed, and that event's comparison is non-compliant.
C4_NoTimestampIsNonCompliant ==
    Finished =>
        \A i \in 1..Len(mission_data.events) :
            (IsRawSpeedChange(mission_data.events[i]) /\ NoTimestamp(mission_data.events[i])) =>
                /\ pc = "returned"
                /\ analysis # None
                /\ analysis[1].comparisons[i].compliance_status = "non-compliant"

\* C4 as amended: a log holding a speed_change event without timestamp does
\* not parse (parse_json_data raises KeyError or ValueError), so no
\* MissionLog, comparison or analysis exists for it; and no comparison of a
\* speed_change event is ever non-compliant.
C4_NoTimestampFailsParse ==
    /\ (\E i \in 1..Len(mission_data.events) :
            IsRawSpeedChange(mission_data.events[i]) /\ NoTimestamp(mission_data.events[i]))
       => /\ pc \in {"parse", "failed"}
          /\ pc = "failed" => error \in {"KeyError", "ValueError"}
          /\ mission_log = None
          /\ comparison_results = <<>>
          /\ analysis = None
    /\ \A i \in 1..Len(comparison_results) :
          comparison_results[i].analysis.event_type = "speed_change"
              => comparison_results[i].compliance_status \in {"compliant", "partial"}

C4_Witness ==
    /\ pc = "failed"
    /\ Len(mission_data.events) = 1
    /\ IsRawSpeedChange(mission_data.events[1])
    /\ mission_data.events[1].timestamp.kind = "null"
    /\ error = "ValueError"

\* C5: a contact_detection event is compliant when tracking_number and
\* timestamp are both present and non-compliant otherwise, whatever its speed.
C5_ContactDetectionRule ==
    Compared =>
        \A i \in 1..Len(Events) :
            Events[i].event_type = "contact_detection" =>
                comparison_results[i].compliance_status =
                    IF Events[i].tracking_number # None /\ Events[i].timestamp # None
                    THEN "compliant" ELSE "non-compliant"

C5_Witness ==
    /\ Compared
    /\ Len(Events) = 1
    /\ Events[1].event_type = "contact_detection"
    /\ Events[1].tracking_number = None
    /\ Events[1].speed # None
    /\ comparison_results[1].compliance_status = "non-compliant"

\* C6: every event whose type is neither speed_change nor contact_detection
\* is unclear, whatever fields it carries.
C6_OtherTypesUnclear ==
    Compared =>
        \A i \in 1..Len(Events) :
            Events[i].event_type \notin {"speed_change", "contact_detection"}
                => comparison_results[i].compliance_status = "unclear"

C6_Witness ==
    /\ Compared
    /\ Len(Events) = 1
    /\ mission_data.events[1].event_type = None
    /\ Events[1].event_type = "unknown"
    /\ Events[1].tracking_number # None /\ Events[1].speed # None
    /\ comparison_results[1].compliance_status = "unclear"

SeverityOf(status) ==
    CASE status = "compliant"     -> "info"
      [] status = "partial"       -> "minor"
      [] status = "non-compliant" -> "major"
      [] status = "unclear"       -> "minor"

AllComparisons ==
    {comparison_results[i] : i \in 1..Len(comparison_results)}
    \cup (IF analysis = None THEN {}
          ELSE {analysis[1].comparisons[i] : i \in 1..Len(analysis[1].comparisons)})

\* C7: the severity of every ComparisonResult is fixed by its status:
\* compliant info, partial minor, non-compliant major, unclear minor; never
\* critical.
C7_SeverityLookup ==
    \A c \in AllComparisons :
        /\ c.compliance_status \in {"compliant", "partial", "non-compliant", "unclear"}
        /\ c.severity = SeverityOf(c.compliance_status)
        /\ c.severity # "critical"

C7_Witness ==
    /\ pc = "returned"
    /\ {c.compliance_status : c \in AllComparisons}
           = {"compliant", "partial", "non-compliant", "unclear"}

\* position of the first document of docs whose page_content is text
FirstIndex(docs, text) ==
    CHOOSE i \in 1..Len(docs) :
        /\ docs[i].page_content = text
        /\ \A j \in 1..(i - 1) : docs[j].page_content # text

\* C8: the doctrine context holds no two chunks with equal text; every text
\* the searches returned appears in it exactly once, as the first document
\* that carried it, and in order of first occurrence.
C8_ContextDeduplicated ==
    Retrieved =>
        /\ \A i, j \in 1..Len(doctrine_context) :
              i # j => doctrine_context[i].page_content # doctrine_context[j].page_content
        /\ {doctrine_context[i].page_content : i \in 1..Len(doctrine_context)}
              = {all_doctrine_docs[i].page_content : i \in 1..Len(all_doctrine_docs)}
        /\ \A i \in 1..Len(doctrine_context) :
              doctrine_context[i] =
                  all_doctrine_docs[FirstIndex(all_doctrine_docs, doctrine_context[i].page_content)]
        /\ \A i, j \in 1..Len(doctrine_context) :
              i < j => FirstIndex(all_doctrine_docs, doctrine_context[i].page_content)
                         < FirstIndex(all_doctrine_docs, doctrine_context[j].page_content)

C8_Witness ==
    /\ Retrieved
    /\ Len(doctrine_context) >= 2
    /\ \E i, j \in 1..Len(all_doctrine_docs) :
          /\ i < j
          /\ all_doctrine_docs[i].page_content = all_doctrine_docs[j].page_content
          /\ all_doctrine_docs[i].source_file # all_doctrine_docs[j].source_file
    /\ \E i, j \in 1..Len(all_doctrine_docs) :
          i < j /\ all_doctrine_docs[i] = all_doctrine_docs[j]

\* C9: there is exactly one ComparisonResult per event of the log, events
\* after the fifth included, in log order: comparison i carries the
\* timestamp and description of event i.
C9_OneComparisonPerEvent ==
    Compared =>
        LET comps == IF pc = "returned" THEN analysis[1].comparisons ELSE comparison_results
        IN  /\ Len(comps) = Len(Events)
            /\ \A i \in 1..Len(Events) :
                  /\ comps[i].timestamp = Events[i].timestamp
                  /\ comps[i].event_description = Events[i].description

C9_Witness ==
    /\ pc = "returned"
    /\ Len(Events) > 5
    /\ Len(analysis[1].comparisons) = Len(Events)
    /\ Events[Len(Events)].description # Events[1].description
    /\ Events[Len(Events)].timestamp # Events[1].timestamp

\* C10: every ComparisonResult carries the first min(2, n) chunks of the
\* n-chunk deduplicated doctrine context, in retrieval order, and no more.
C10_TopTwoReferences ==
    \A c \in AllComparisons :
        LET refs == c.doctrine_references
        IN  /\ Len(refs) <= 2
            /\ Len(refs) = Min(2, Len(doctrine_context))
            /\ \A k \in 1..Len(refs) :
                  /\ refs[k].context = doctrine_context[k].page_content
                  /\ refs[k].doctrine_id = doctrine_context[k].source_file

C10_Witness ==
    /\ pc = "returned"
    /\ Len(doctrine_context) >= 3
    /\ \E c \in AllComparisons : Len(c.doctrine_references) = 2

HasLesson(list, kind) == \E i \in 1..Len(list) : list[i].lesson = kind
StatusCount(comps, status) ==
    Cardinality({i \in 1..Len(comps) : comps[i].compliance_status = status})

\* C11: the lessons-learned list has an entry about non-compliant events
\* exactly when some comparison is non-compliant, an entry about partial
\* compliance exactly when some is partial, is the single "excellent
\* adherence" entry when every event is compliant, and has that entry only
\* then.
C11_LessonsFollowCounts ==
    pc = "returned" =>
        LET comps == analysis[1].comparisons
            list  == analysis[1].lessons_learned
            all_compliant == StatusCount(comps, "compliant") = Len(comps)
        IN  /\ HasLesson(list, "not_met") <=> StatusCount(comps, "non-compliant") > 0
            /\ HasLesson(list, "partial") <=> StatusCount(comps, "partial") > 0
            /\ all_compliant => list = <<[lesson |-> "excellent", count |-> 0]>>
            /\ HasLesson(list, "excellent") => all_compliant
            /\ \A i \in 1..Len(list) :
                  /\ list[i].lesson = "not_met" =>
                         list[i].count = StatusCount(comps, "non-compliant")
                  /\ list[i].lesson = "partial" =>
                         list[i].count = StatusCount(comps, "partial")

C11_Witness ==
    /\ pc = "returned"
    /\ StatusCount(analysis[1].comparisons, "unclear") > 0
    /\ StatusCount(analysis[1].comparisons, "compliant") > 0
    /\ analysis[1].lessons_learned =
           <<[lesson |-> "not_met", count |-> 1], [lesson |-> "partial", count |-> 1]>>

IsSampleRun == mission_data = generate_sample_mission_log
StrictlyBetween0And100(score) == score.num > 0 /\ score.num < 100 * score.den

\* C12 as stated: analysing the 6-event sample mission gives 6 comparisons, a
\* score strictly between 0 and 100 and at least one lessons-learned entry
\* about non-compliant or partially compliant events.
C12_SampleHasFailureLesson ==
    (IsSampleRun /\ Finished) =>
        /\ pc = "returned"
        /\ Len(analysis[1].comparisons) = 6
        /\ StrictlyBetween0And100(analysis[1].overall_compliance_score)
        /\ \/ HasLesson(analysis[1].lessons_learned, "not_met")
           \/ HasLesson(analysis[1].lessons_learned, "partial")

\* C12 as amended: analysing the 6-event sample mission gives 6 comparisons
\* (three compliant, three unclear), the score 50, strictly between 0 and
\* 100, and an empty lessons-learned list.
C12_SampleHasNoLesson ==
    (IsSampleRun /\ Finished) =>
        /\ pc = "returned"
        /\ Len(analysis[1].comparisons) = 6
        /\ [i \in 1..6 |-> analysis[1].comparisons[i].compliance_status]
              = <<"unclear", "compliant", "compliant", "unclear", "compliant", "unclear">>
        /\ StrictlyBetween0And100(analysis[1].overall_compliance_score)
        /\ analysis[1].overall_compliance_score = [num |-> 50, den |-> 1]
        /\ analysis[1].lessons_learned = <<>>

C12_Witness ==
    /\ IsSampleRun
    /\ pc = "returned"
    /\ Len(analysis[1].comparisons) = 6
    /\ analysis[1].lessons_learned = <<>>

Unparseable(ts) == ts.kind = "null" \/ (ts.kind = "str" /\ ts.fmt \notin 1..NumFormats)
ParseAttempted == pc # "parse"

\* C19: when the start_time, the end_time or an event's timestamp cannot be
\* parsed, parse_json_data raises and there is no MissionLog: no log without
\* the offending event, none with a substitute time.
C19_BadTimestampFailsParse ==
    (/\ ParseAttempted
     /\ \/ Unparseable(mission_data.start_time)
        \/ Unparseable(mission_data.end_time)
        \/ \E i \in 1..Len(mission_data.events) : Unparseable(mission_data.events[i].timestamp))
    => /\ pc = "failed"
       /\ error \in {"ValueError", "KeyError"}
       /\ mission_log = None
       /\ analysis = None

C19_Witness ==
    /\ pc = "failed"
    /\ error = "ValueError"
    /\ mission_log = None
    /\ Len(mission_data.events) = 1
    /\ mission_data.events[1].timestamp = RawTimestamp("str", 0, 0)
    /\ ~Unparseable(mission_data.start_time)
    /\ ~Unparseable(mission_data.end_time)

LacksTimeKey ==
    \/ mission_data.start_time.kind = "absent"
    \/ \E i \in 1..Len(mission_data.events) : mission_data.events[i].timestamp.kind = "absent"
LacksDefaultedKey ==
    \/ mission_data.mission_id = None
    \/ mission_data.mission_name = None
    \/ mission_data.vessel_name = None
    \/ \E i \in 1..Len(mission_data.events) :
          mission_data.events[i].event_type = None \/ mission_data.events[i].description = None

\* C20 as stated: a log lacking mission_id, mission_name, vessel_name,
\* start_time, or an event's timestamp, event_type or description fails to
\* parse and gives no MissionLog.
C20_MissingFieldFailsParse ==
    (ParseAttempted /\ (LacksTimeKey \/ LacksDefaultedKey)) =>
        pc = "failed" /\ mission_log = None

AllTimesParse ==
    /\ parse_timestamp(mission_data.start_time).err = ""
    /\ mission_data.end_time.kind = "absent" \/ parse_timestamp(mission_data.end_time).err = ""
    /\ \A i \in 1..Len(mission_data.events) :
          parse_timestamp(mission_data.events[i].timestamp).err = ""

\* C20 as amended: a log lacking start_time or an event's timestamp fails to
\* parse (KeyError, or the ValueError of an earlier bad timestamp) and gives
\* no MissionLog; a log lacking only mission_id, mission_name, vessel_name, or
\* an event's event_type or description parses, with the defaults "unknown",
\* "Unnamed Mission", "Unknown Vessel", "unknown" and "".
C20_OnlyTimeKeysRequired ==
    ParseAttempted =>
        /\ LacksTimeKey =>
              pc = "failed" /\ error \in {"KeyError", "ValueError"} /\ mission_log = None
        /\ AllTimesParse =>
              /\ Parsed
              /\ mission_log[1].mission_id =
                     (IF mission_data.mission_id = None THEN "unknown"
                      ELSE mission_data.mission_id[1])
              /\ mission_log[1].mission_name =
                     (IF mission_data.mission_name = None THEN "Unnamed Mission"
                      ELSE mission_data.mission_name[1])
              /\ mission_log[1].vessel_name =
                     (IF mission_data.vessel_name = None THEN "Unknown Vessel"
                      ELSE mission_data.vessel_name[1])
              /\ Len(Events) = Len(mission_data.events)
              /\ \A i \in 1..Len(Events) :
                    /\ Events[i].event_type =
                           (IF mission_data.events[i].event_type = None THEN "unknown"
                            ELSE mission_data.events[i].event_type[1])
                    /\ Events[i].description =
                           (IF mission_data.events[i].description = None THEN ""
                            ELSE mission_data.events[i].description[1])

C20_Witness ==
    /\ pc = "returned"
    /\ mission_data.mission_id = None
    /\ mission_data.mission_name = None
    /\ mission_data.vessel_name = None
    /\ mission_log[1].mission_id = "unknown"
    /\ analysis[1].mission_name = "Unnamed Mission"
    /\ Len(Events) = 1

-----------------------------------------------------------------------------
(* Properties of the DoctrineIndexer *)

\* an index_doctrines call has been made and is over (returned or raised)
CallOver == ipc = "idle" /\ call.outcome # "none"

\* the index of the files of DOCTRINES_DIR in `files`
IndexOf(files) == Some(create_vector_store(load_all_doctrines(files)))

\* C13: a search fails with the not-indexed error whenever the indexer holds no
\* store, which is the case as long as no index_doctrines call has returned
\* and none is running; a search made after an index_doctrines call returned
\* never fails with it, and an indexer whose call returned holds a store, the
\* empty corpus included.
C13_SearchFailsOnlyWithoutIndex ==
    /\ (last_search.outcome # "none" /\ last_search.seen = None)
          => last_search.outcome = "not_indexed"
    /\ last_search.after_index => last_search.outcome = "ok"
    /\ (ipc = "idle" /\ ~indexed) => indexer_store = None
    /\ indexed => indexer_store # None

\* a search that succeeded, with no result, on the index of an empty corpus
C13_Witness ==
    /\ doctrines_dir = {}
    /\ call.outcome = "rebuilt"
    /\ last_search.after_index
    /\ last_search.outcome = "ok"
    /\ last_search.seen = Some(<<>>)
    /\ last_search.found = 0

\* C14: an index_doctrines call that finds a loadable persisted index and is
\* not forced installs that index, reads no source document and leaves the
\* disk alone; every other call rebuilds the index from the documents of
\* DOCTRINES_DIR, installs it, and saves it unless there is no document.
C14_LoadsOrRebuildsAndPersists ==
    CallOver =>
        IF call.persisted_before.exists /\ call.persisted_before.loadable /\ ~call.force
        THEN /\ call.outcome = "loaded"
             /\ ~call.read_docs
             /\ indexer_store = Some(call.persisted_before.docs)
             /\ persisted = call.persisted_before
        ELSE /\ call.outcome = "rebuilt"
             /\ call.read_docs
             /\ indexer_store = IndexOf(doctrines_dir \ unreadable)
             /\ IF load_all_doctrines(doctrines_dir \ unreadable) = <<>>
                THEN ~call.wrote /\ persisted = call.persisted_before
                ELSE call.wrote /\ persisted = [exists |-> TRUE, loadable |-> TRUE,
                                                docs |-> indexer_store[1]]

\* C15: at every point of an index_doctrines call, one that raises part-way
\* included, the indexer's store is the store it held when the call began or
\* the complete index the call is to install, and that is what every search
\* made at any such point has seen.
C15_SearchSeesCompleteIndex ==
    /\ indexer_store \in {call.store_before, call.target}
    /\ last_search.outcome # "none"
          => last_search.seen \in {last_search.before, last_search.target}

\* a search made while a rebuild had loaded some files and not yet the others,
\* which saw the previous index, different from the one being built
C15_Witness ==
    /\ ipc = "load"
    /\ call.documents # <<>>
    /\ call.to_load # <<>>
    /\ last_search.reindexing
    /\ last_search.outcome = "ok"
    /\ last_search.seen = call.store_before
    /\ last_search.before = call.store_before
    /\ last_search.target = call.target
    /\ call.store_before # call.target

\* C16: an index_doctrines call that reads the documents completes and installs
\* the index of the files that load, whatever files fail to load.
C16_FailedFileIsSkipped ==
    (CallOver /\ call.read_docs) =>
        /\ call.outcome = "rebuilt"
        /\ indexer_store = IndexOf(doctrines_dir \ unreadable)
-----------------------------------------------------------------------------
(* Properties of the API process *)

Answered(r) == requests[r].status = "answered"
Running(r) == requests[r].status = "running"
Pending(r) == requests[r].status = "pending"

\* a MissionAnalysis with comparisons, summary, recommendations and score set
Complete(a) ==
    /\ Len(a.comparisons) > 0
    /\ a.summary # None
    /\ a.lessons_learned \in Seq([lesson : STRING, count : Nat])
    /\ a.recommendations # <<>>
    /\ a.overall_compliance_score.den > 0

\* C17: rag_pipeline.analyze_mission ends either returning a complete analysis
\* or raising with no analysis, and every answered analyze request was
\* answered either with a complete MissionAnalysis or with an error and no
\* analysis, the store after a failed request being the store before it.
C17_CompleteOrFailed ==
    /\ pc = "returned" => (analysis # None /\ Complete(analysis[1]) /\ error = "")
    /\ pc = "failed" => (analysis = None /\ error # "")
    /\ \A r \in DOMAIN requests :
          Answered(r) =>
             LET resp == requests[r].response
             IN  \/ /\ resp.status = 200
                    /\ resp.body # None
                    /\ Complete(resp.body[1])
                 \/ /\ resp.status = 500
                    /\ resp.detail # ""
                    /\ resp.body = None
                    /\ requests[r].stored_after = requests[r].stored_before

\* a request that failed in the summary stage after an earlier request had
\* stored an analysis under the same mission id, which is still stored
C17_Witness ==
    \E r \in DOMAIN requests :
        /\ Answered(r)
        /\ requests[r].response.status = 500
        /\ requests[r].response.detail = "ZeroDivisionError"
        /\ requests[r].stored_before[RequestId(requests[r].data)] # None
        /\ stored_analyses[RequestId(requests[r].data)]
              = requests[r].stored_before[RequestId(requests[r].data)]

\* the entry stored under each mission id is the complete analysis returned
\* to one of the requests for that id
StoredIsOneResult ==
    \A id \in MissionIds :
        stored_analyses[id] # None =>
            /\ Complete(stored_analyses[id][1])
            /\ \E r \in DOMAIN requests :
                  /\ Answered(r)
                  /\ RequestId(requests[r].data) = id
                  /\ requests[r].response.body = stored_analyses[id]

\* a request leaves the entries of the other mission ids as they were
OtherIdsNotAltered ==
    \A r \in DOMAIN requests :
        Answered(r) =>
            \A id \in MissionIds \ {RequestId(requests[r].data)} :
                requests[r].stored_after[id] = requests[r].stored_before[id]

\* C18: at most one analysis per mission id is in progress, the entry stored
\* under a mission id is the complete result of one of the analyses of that
\* id, a request does not alter the entries of other ids, and a pending
\* request can start while an analysis of another id is in progress.
C18_SerializedPerMissionId ==
    /\ \A id \in MissionIds :
          Cardinality({r \in DOMAIN requests :
                          Running(r) /\ RequestId(requests[r].data) = id}) <= 1
    /\ StoredIsOneResult
    /\ OtherIdsNotAltered
    /\ \A r, q \in DOMAIN requests :
          (Pending(r) /\ Running(q)
             /\ RequestId(requests[r].data) # RequestId(requests[q].data))
          => ENABLED ApiAnalyzeBegin(r)

\* C18 as amended: at most one analysis is in progress at all, whatever the
\* mission ids; the entry stored under a mission id is the complete result of
\* one of the analyses of that id, and a request does not alter the entries
\* of other ids.
C18_SerializedGlobally ==
    /\ Cardinality({r \in DOMAIN requests : Running(r)}) <= 1
    /\ \A r \in DOMAIN requests : Running(r) <=> current = r
    /\ StoredIsOneResult
    /\ OtherIdsNotAltered

\* an analysis in progress while a request for another mission id waits
C18_Witness ==
    \E r, q \in DOMAIN requests :
        /\ Pending(r)
        /\ Running(q)
        /\ pc = "compare_actions"
        /\ RequestId(requests[r].data) # RequestId(requests[q].data)
        /\ ~ENABLED ApiAnalyzeBegin(r)
-----------------------------------------------------------------------------
(* Properties of repeated index_doctrines calls *)

\* every chunk of the store is there once
NoDuplicateChunks(store) ==
    \A i, j \in 1..Len(store) :
        (store[i].source_file = store[j].source_file
           /\ store[i].start_index = store[j].start_index) => i = j

\* the last two index_doctrines calls were both made with force_reindex=False
\* and the second one is over
TwiceUnforced ==
    /\ CallOver
    /\ ~call.force
    /\ ~call.prev_force
    /\ call.prev_outcome # "none"

\* C21: when index_doctrines(force_reindex=False) is called a second time
\* after such a call returned, it returns too and the indexer holds the same
\* store as after the first call, with every chunk once; when the first call
\* raised, the second raises too and the store is again as it was.
C21_SecondCallChangesNothing ==
    TwiceUnforced =>
        /\ indexer_store = call.store_before
        /\ persisted = call.persisted_before
        /\ IF call.prev_outcome = "raised"
           THEN call.outcome = "raised"
           ELSE /\ call.outcome \in {"loaded", "rebuilt"}
                /\ indexer_store # None
                /\ NoDuplicateChunks(indexer_store[1])

\* a first call that built and saved the index of a corpus of several chunks
\* and a second call that loaded it
C21_Witness ==
    /\ TwiceUnforced
    /\ call.prev_outcome = "rebuilt"
    /\ call.outcome = "loaded"
    /\ Len(indexer_store[1]) > 1
    /\ indexer_store = IndexOf(doctrines_dir)
-----------------------------------------------------------------------------
(* Properties of the retrieval stage *)

\* the results of one search with k=3 for each of the first n events of the
\* log, in log order
RECURSIVE SearchesOfFirst(_)
SearchesOfFirst(n) ==
    IF n = 0 THEN <<>>
    ELSE SearchesOfFirst(n - 1)
         \o search(vector_store, <<Events[n].event_type, Events[n].description>>, 3)

\* the texts of the chunks of the doctrine context
ContextTexts == {doctrine_context[i].page_content : i \in 1..Len(doctrine_context)}

\* C22: when the retrieval stage has run, the documents retrieved are those of one search with k=3 for each of
\* the first min(5, n) events of the n-event log and of no later event; the
\* doctrine context has at most 15 chunks, and it is the context of the log
\* cut after its fifth event and of that log followed by any other sixth event.
C22_OnlyFirstFiveSearched ==
    pc = "compare_actions" =>
        /\ all_doctrine_docs = SearchesOfFirst(Min(5, Len(Events)))
        /\ Len(all_doctrine_docs) <= 15
        /\ Len(doctrine_context) <= 15
        /\ doctrine_context
              = retrieve_doctrine_node(vector_store, Take(Events, 5)).doctrine_context
        /\ \A e \in {Events[i] : i \in 1..Len(Events)} :
              doctrine_context
                 = retrieve_doctrine_node(vector_store,
                                          Take(Events, 5) \o <<e>>).doctrine_context

\* a log of more than five events whose sixth event, had it been searched
\* for, would have brought a chunk with a text the context does not hold
C22_Witness ==
    /\ Retrieved
    /\ Len(Events) > 5
    /\ doctrine_context # <<>>
    /\ \E d \in {search(vector_store, event_description(Events[6]), 3)[k] :
                    k \in 1..Len(search(vector_store, event_description(Events[6]), 3))} :
          d.page_content \notin ContextTexts
-----------------------------------------------------------------------------
(* Properties of doctrine reindexing *)

\* the last reindex request was answered with success
Reindexed == last_reindex.status = 200

\* C23: after a reindex request that succeeded, the store of the pipeline's
\* indexer and the store of the global indexer hold the same chunks.
C23_SameIndexAfterReindex ==
    Reindexed => indexer_store = Some(vector_store)
====
